---------------------------- MODULE Spec2Model ----------------------------
(***************************************************************************)
(* Fleet asset register: the App component of src/App.tsx (its React       *)
(* state and event handlers), the store of src/store.ts (one localStorage  *)
(* slot holding the JSON text of the AppState) and the seed data of        *)
(* src/unnamed/part_000 (constants.tsx), and the advisory service of       *)
(* src/unnamed/part_001 (services/geminiService).                          *)
(*                                                                         *)
(* Spec is the application as the user drives it.  SpecStore is the store  *)
(* alone, SpecHandlers the four record handlers called in either role,     *)
(* SpecVehicles the vehicle master with a running clock, SpecTabs two tabs *)
(* on one slot, SpecAdvice the advisory service, SpecReload the            *)
(* application opened on a slot an earlier visit has written, SpecPhotos   *)
(* the vehicle master with the photo picker, SpecStats the stats memo.     *)
(*                                                                         *)
(* An event handler is enabled when the element that carries it is         *)
(* mounted, i.e. when the JSX condition around the element holds.  The     *)
(* Modal component (App.tsx:59-76) draws an overlay above the page but     *)
(* unmounts and disables nothing beneath it, so the sidebar, the lists and *)
(* the vehicle select remain operable (keyboard focus) while a form is     *)
(* open.                                                                   *)
(***************************************************************************)
EXTENDS Integers, Sequences, FiniteSets, TLC

VARIABLES
    pc,                 \* "boot" before App mounts, "running", or "crashed"
    storage,            \* localStorage slot STORAGE_KEY
    state,              \* useState<AppState>: [vehicles, parts]
    activeTab,          \* useState('dashboard')
    selectedVehicleId,  \* useState<string | null>(null)
    isEditorMode,       \* useState(false)
    isVehicleModalOpen, \* useState(false)
    isPartModalOpen,    \* useState(false)
    editingVehicle,     \* useState<Vehicle | null>: <<>> is null, <<id>> the
                        \* vehicle with that id (no other field of it is read
                        \* but to prefill the form)
    editingPart,        \* useState<Part | null>: <<>> is null, <<id>> a part
    tempPhoto,          \* useState<string | undefined>(undefined)
    readers,            \* FileReaders started by handlePhotoChange, not yet ended
    now,                \* the clock read by new Date()
    ops,                \* how often setState has replaced the AppState
    tabs,               \* the App of each browser tab open on the same slot
                        \* (SpecTabs): [pc, state]; <<>> with a single tab
    advice,             \* a call of the advisory service (SpecAdvice): its
                        \* arguments, what the generation request does and
                        \* what the caller gets; <<>> when none is made
    opened,             \* history: how the vehicle form and the part form
                        \* were last opened, and the photos of that vehicle form
    last,               \* history: the handler that ran last and its arguments
    prev                \* history: the AppState before that handler ran

vars == <<pc, storage, state, activeTab, selectedVehicleId, isEditorMode,
          isVehicleModalOpen, isPartModalOpen, editingVehicle, editingPart,
          tempPhoto, readers, now, ops, tabs, advice, opened, last, prev>>

ui == <<activeTab, selectedVehicleId, isEditorMode, isVehicleModalOpen,
        isPartModalOpen, editingVehicle, editingPart, tempPhoto, readers>>

\* what lies outside the one App, and the history of the forms
outside == <<tabs, advice, opened>>

-----------------------------------------------------------------------------
(* Bounds of the model *)

\* a run changes the AppState at most this many times; after the last change
\* only a reload of the page follows
MaxOps == 2
\* the clock stops advancing here
MaxClock == 1

-----------------------------------------------------------------------------
(* JavaScript values *)

\* null (selectedVehicleId) and undefined (an absent photo or chassisNumber)
Null == "<null>"
Undefined == "<undefined>"

\* JavaScript truthiness of a string | null | undefined
Truthy(s) == s \notin {Null, Undefined, ""}

\* Math.random().toString(36).substr(2, 9): any string of at most nine base-36
\* digits; "" when Math.random() returns 0.  Two calls may return the same.
RandomIds == {"", "r1"}

\* the images a user may pick (results of FileReader.readAsDataURL)
Photos == {"data:img1"}

-----------------------------------------------------------------------------
(* constants.tsx (src/unnamed/part_000) *)

NAVIGATION == <<"dashboard", "search", "vehicles", "parts">>

\* updatedAt is new Date().toISOString() at module load: the clock's first value
INITIAL_VEHICLES ==
    << [id |-> "v1", vehicleNumber |-> "KA-01-ME-1234", type |-> "Truck",
        brand |-> "Tata", model |-> "Prima", year |-> 2022,
        chassisNumber |-> Undefined, photo |-> Undefined, updatedAt |-> 0],
       [id |-> "v2", vehicleNumber |-> "MH-12-RS-5678", type |-> "Bus",
        brand |-> "Volvo", model |-> "9400", year |-> 2021,
        chassisNumber |-> Undefined, photo |-> Undefined, updatedAt |-> 0] >>

INITIAL_PARTS ==
    << [id |-> "p1", vehicleId |-> "v1", itemNumber |-> "8081010228",
        thirdItemNumber |-> "8081010228",
        itemDescription |-> "VEHICLE/PLANT/EQUIPMENT",
        descriptionLine2 |-> "SERVICE STICKERS", quantity |-> 1,
        supplierName |-> "AutoHub", installedDate |-> "2023-12-01",
        category |-> "Other"],
       [id |-> "p2", vehicleId |-> "v2", itemNumber |-> "3215060003",
        thirdItemNumber |-> "LF3874/LF3335", itemDescription |-> "OIL FILTER",
        descriptionLine2 |-> "16.5 KVA", quantity |-> 1,
        supplierName |-> "SafeDrive", installedDate |-> "2024-01-15",
        category |-> "Engine"] >>

-----------------------------------------------------------------------------
(* What the user may type into the two forms (FormData of the submit event) *)

VehicleForms ==
    { [vehicleNumber |-> "DL-05-AB-0001", type |-> "Car", brand |-> "Maruti",
       model |-> "Dzire", year |-> 2024, chassisNumber |-> ""] }

PartForms ==
    { [itemNumber |-> "1000000001", thirdItemNumber |-> "",
       itemDescription |-> "BRAKE PAD", descriptionLine2 |-> "",
       quantity |-> 4, supplierName |-> "", installedDate |-> "2024-06-01",
       category |-> "Body"] }

-----------------------------------------------------------------------------
(* store.ts *)

\* localStorage.getItem returns null: nothing was ever stored under the key
Absent == [kind |-> "absent"]
\* stored texts that are not the JSON text of an AppState
EmptyText == [kind |-> "text", text |-> ""]
CorruptText == [kind |-> "text", text |-> "{\"vehicles\":[{"]

\* the keys of a record whose value may be undefined
OptionalKeys == {"chassisNumber", "photo"}

\* JSON.stringify leaving out every falsy optional value, "" included
JsonObject_DropFalsy(o) ==
    LET kept == {k \in DOMAIN o : ~(k \in OptionalKeys /\ ~Truthy(o[k]))}
    IN  [k \in kept |-> o[k]]

\* JSON.stringify of one record: a key whose value is undefined is left out
JsonObject(o) ==
    LET kept == {k \in DOMAIN o : ~(k \in OptionalKeys /\ o[k] = Undefined)}
    IN  [k \in kept |-> o[k]]

\* the record JSON.parse builds: reading a key the text lacks gives undefined
ParsedObject(j, keys) ==
    [k \in keys |-> IF k \in DOMAIN j THEN j[k] ELSE Undefined]

VehicleKeys == {"id", "vehicleNumber", "type", "brand", "model", "year",
                "chassisNumber", "photo", "updatedAt"}
PartKeys == {"id", "vehicleId", "itemNumber", "thirdItemNumber",
             "itemDescription", "descriptionLine2", "quantity",
             "supplierName", "installedDate", "category"}

\* JSON.stringify(data) for an AppState
JSONstringify(data) ==
    [kind |-> "json",
     vehicles |-> [i \in 1..Len(data.vehicles) |-> JsonObject(data.vehicles[i])],
     parts |-> [i \in 1..Len(data.parts) |-> JsonObject(data.parts[i])]]

\* JSON.parse(text) for the JSON text of an AppState
JSONparse(text) ==
    [vehicles |-> [i \in 1..Len(text.vehicles) |->
                      ParsedObject(text.vehicles[i], VehicleKeys)],
     parts |-> [i \in 1..Len(text.parts) |->
                      ParsedObject(text.parts[i], PartKeys)]]

\* the seed dataset returned when nothing is stored
SeedData == [vehicles |-> INITIAL_VEHICLES, parts |-> INITIAL_PARTS]

\* getStoredData() seeding the vehicles but no parts
getStoredData_NoSeedParts(slot) ==
    IF slot.kind = "absent" \/ (slot.kind = "text" /\ slot.text = "")
    THEN [threw |-> FALSE, value |-> [vehicles |-> INITIAL_VEHICLES, parts |-> <<>>]]
    ELSE IF slot.kind = "json"
         THEN [threw |-> FALSE, value |-> JSONparse(slot)]
         ELSE [threw |-> TRUE, value |-> [vehicles |-> <<>>, parts |-> <<>>]]

\* getStoredData(): threw is TRUE when JSON.parse raises a SyntaxError
getStoredData(slot) ==
    IF slot.kind = "absent" \/ (slot.kind = "text" /\ slot.text = "")
    THEN [threw |-> FALSE, value |-> SeedData]
    ELSE IF slot.kind = "json"
         THEN [threw |-> FALSE, value |-> JSONparse(slot)]
         ELSE [threw |-> TRUE, value |-> [vehicles |-> <<>>, parts |-> <<>>]]

\* a save that writes only when the slot holds no AppState yet
saveStoredData_KeepExisting(data) ==
    IF storage.kind = "json" THEN storage ELSE JSONstringify(data)

\* saveStoredData(data): the text the slot holds afterwards
saveStoredData(data) == JSONstringify(data)

-----------------------------------------------------------------------------
(* App.tsx: values computed by the handlers *)

EmptyState == [vehicles |-> <<>>, parts |-> <<>>]

\* the ids of a list of records
IdsOf(seq) == {seq[i].id : i \in 1..Len(seq)}

\* editingVehicle?.id || Math.random().toString(36).substr(2, 9), with r the
\* string the random expression gives (same expression for editingPart)
RecordId(editing, r) ==
    IF editing # <<>> /\ Truthy(editing[1]) THEN editing[1] ELSE r

\* newVehicle with updatedAt left at the clock's first value
NewVehicle_NoStamp(form, r) ==
    [id |-> RecordId(editingVehicle, r),
     vehicleNumber |-> form.vehicleNumber, type |-> form.type,
     brand |-> form.brand, model |-> form.model, year |-> form.year,
     chassisNumber |-> form.chassisNumber,
     photo |-> tempPhoto, updatedAt |-> 0]

\* newVehicle of handleAddVehicle; updatedAt is the clock reading in
\* milliseconds, which toISOString() writes and new Date(text) reads back
\* without loss
NewVehicle(form, r) ==
    [id |-> RecordId(editingVehicle, r),
     vehicleNumber |-> form.vehicleNumber, type |-> form.type,
     brand |-> form.brand, model |-> form.model, year |-> form.year,
     chassisNumber |-> form.chassisNumber,
     photo |-> tempPhoto, updatedAt |-> now]

\* newPart of handleAddPart
NewPart(form, r) ==
    [id |-> RecordId(editingPart, r),
     vehicleId |-> IF Truthy(selectedVehicleId) THEN selectedVehicleId ELSE "",
     itemNumber |-> form.itemNumber, thirdItemNumber |-> form.thirdItemNumber,
     itemDescription |-> form.itemDescription,
     descriptionLine2 |-> form.descriptionLine2, quantity |-> form.quantity,
     supplierName |-> form.supplierName, installedDate |-> form.installedDate,
     category |-> form.category]

\* the list handleAddVehicle / handleAddPart sets: with a record being edited,
\* prev.map(x => x.id === editing.id ? rec : x); without, [...prev, rec]
UpsertList(list, editing, rec) ==
    IF editing # <<>>
    THEN [i \in 1..Len(list) |->
             IF list[i].id = editing[1] THEN rec ELSE list[i]]
    ELSE Append(list, rec)

\* deleteVehicle without the cascade: the vehicle goes, its parts stay
DeleteVehicleState_NoCascade(st, id) ==
    [st EXCEPT !.vehicles = SelectSeq(st.vehicles, LAMBDA v : v.id # id)]

\* deleteVehicle dropping every part along with the vehicle
DeleteVehicleState_DropAllParts(st, id) ==
    [vehicles |-> SelectSeq(st.vehicles, LAMBDA v : v.id # id),
     parts |-> <<>>]

\* the state deleteVehicle sets once confirmed
DeleteVehicleState(st, id) ==
    [vehicles |-> SelectSeq(st.vehicles, LAMBDA v : v.id # id),
     parts |-> SelectSeq(st.parts, LAMBDA p : p.vehicleId # id)]

\* deletePart with the filter's test inverted (=== for !==)
DeletePartState_Inverted(st, id) ==
    [st EXCEPT !.parts = SelectSeq(st.parts, LAMBDA p : p.id = id)]

\* the state deletePart sets once confirmed
DeletePartState(st, id) ==
    [st EXCEPT !.parts = SelectSeq(st.parts, LAMBDA p : p.id # id)]

\* [...list].sort((a, b) => b.updatedAt - a.updatedAt): a stable sort, latest
\* first; InsertDesc puts v behind every element that is not older
RECURSIVE InsertDesc(_, _)
InsertDesc(sorted, v) ==
    IF sorted = <<>> THEN <<v>>
    ELSE IF Head(sorted).updatedAt >= v.updatedAt
         THEN <<Head(sorted)>> \o InsertDesc(Tail(sorted), v)
         ELSE <<v>> \o sorted

RECURSIVE SortDesc(_)
SortDesc(list) ==
    IF list = <<>> THEN <<>>
    ELSE InsertDesc(SortDesc(SubSeq(list, 1, Len(list) - 1)), list[Len(list)])

\* .slice(0, 3)
RecentCount == 3

\* stats without the sort: the first vehicles of the list as it is stored
stats_NoSort(st) ==
    [totalVehicles |-> Len(st.vehicles),
     totalParts |-> Len(st.parts),
     recentVehicles |->
        SubSeq(st.vehicles, 1, IF Len(st.vehicles) < RecentCount
                               THEN Len(st.vehicles) ELSE RecentCount),
     vehicles |-> st.vehicles]

\* the stats memo of App; the field vehicles is st.vehicles as the
\* computation leaves it: [...st.vehicles] is a copy, and sort orders the copy
stats(st) ==
    LET sorted == SortDesc(st.vehicles)
    IN  [totalVehicles |-> Len(st.vehicles),
         totalParts |-> Len(st.parts),
         recentVehicles |->
            SubSeq(sorted, 1, IF Len(sorted) < RecentCount THEN Len(sorted)
                              ELSE RecentCount),
         vehicles |-> st.vehicles]

\* stats.recentVehicles
recentVehicles == stats(state).recentVehicles

\* the parts view without the filter
vehicleParts_Unfiltered == state.parts

\* vehicleParts of renderVehicleParts, quickParts of renderTechnicianSearch
vehicleParts == SelectSeq(state.parts, LAMBDA p : p.vehicleId = selectedVehicleId)

-----------------------------------------------------------------------------
(* History of the last handler *)

\* op: the handler; id: the id it was called with or gave the record it built;
\* edit: a record was being edited; confirmed: the answer to confirm();
\* rec: <<the record built>>; sel: selectedVehicleId when it ran; editor:
\* isEditorMode when it ran; editing: editingVehicle or editingPart when it ran
NoOp == [op |-> "none", id |-> Null, edit |-> FALSE, confirmed |-> FALSE,
         rec |-> <<>>, sel |-> Null, editor |-> FALSE, editing |-> <<>>]

\* the application is mounted and the run has changes left
Alive == pc = "running" /\ ops < MaxOps

\* a step that calls none of the four record handlers
Quiet == last' = NoOp /\ prev' = state /\ ops' = ops /\ UNCHANGED outside

\* no form was opened yet
NoForm == [vehicle |-> <<>>, photos |-> {}, part |-> <<>>]

\* such a step that opens or closes a form or picks a photo in it: o is the
\* new history
QuietForm(o) ==
    /\ last' = NoOp /\ prev' = state /\ ops' = ops
    /\ opened' = o
    /\ UNCHANGED <<tabs, advice>>

\* the role test that opens each of the four record handlers, never returning
Returns_Never(editorMode) == FALSE

\* if (!isEditorMode) return;
Returns(editorMode) == ~editorMode

\* a handler that returned at its role test: nothing is set
Returned(op) ==
    /\ last' = [NoOp EXCEPT !.op = op, !.sel = selectedVehicleId]
    /\ prev' = state
    /\ UNCHANGED <<pc, storage, state, ui, now, ops, outside>>

-----------------------------------------------------------------------------
(* Start *)

\* what the slot may hold when the page is opened
InitialStorage == {Absent, EmptyText, CorruptText}

SlotLabel(slot) ==
    IF slot = Absent THEN "absent"
    ELSE IF slot = EmptyText THEN "empty"
    ELSE IF slot.kind = "text" THEN "unparsable" ELSE "json"

Init ==
    /\ pc = "boot"
    /\ storage \in InitialStorage
    /\ state = EmptyState
    /\ activeTab = "dashboard"
    /\ selectedVehicleId = Null
    /\ isEditorMode = FALSE
    /\ isVehicleModalOpen = FALSE
    /\ isPartModalOpen = FALSE
    /\ editingVehicle = <<>>
    /\ editingPart = <<>>
    /\ tempPhoto = Undefined
    /\ readers = {}
    /\ now = 0
    /\ ops = 0
    /\ tabs = <<>>
    /\ advice = <<>>
    /\ opened = NoForm
    /\ last = NoOp
    /\ prev = EmptyState

\* App(): useState(getStoredData()), then the effect saveStoredData(state).
\* An exception of getStoredData() escapes the first render: nothing mounts.
Mount ==
    /\ pc = "boot"
    /\ LET r == getStoredData(storage)
       IN  /\ last' = [NoOp EXCEPT !.op = "mount", !.id = SlotLabel(storage)]
           /\ IF r.threw
              THEN /\ pc' = "crashed"
                   /\ UNCHANGED <<state, storage, prev>>
              ELSE /\ pc' = "running"
                   /\ state' = r.value
                   /\ prev' = r.value
                   /\ storage' = saveStoredData(r.value)
    /\ UNCHANGED <<ui, now, ops, outside>>

\* the user reloads the page: every useState starts over, the slot stays
\* (prev remembers the AppState the page had)
Reload ==
    /\ pc = "running"
    /\ pc' = "boot"
    /\ state' = EmptyState
    /\ activeTab' = "dashboard"
    /\ selectedVehicleId' = Null
    /\ isEditorMode' = FALSE
    /\ isVehicleModalOpen' = FALSE
    /\ isPartModalOpen' = FALSE
    /\ editingVehicle' = <<>>
    /\ editingPart' = <<>>
    /\ tempPhoto' = Undefined
    /\ readers' = {}
    /\ last' = [NoOp EXCEPT !.op = "reload"]
    /\ prev' = state
    /\ opened' = NoForm
    /\ UNCHANGED <<storage, now, ops, tabs, advice>>

\* time passes
Tick ==
    /\ Alive
    /\ now < MaxClock
    /\ now' = now + 1
    /\ Quiet
    /\ UNCHANGED <<pc, storage, state, ui>>

-----------------------------------------------------------------------------
(* Navigation, selection, role *)

\* a sidebar item that leaves the selection alone
Navigate_KeepSelection(tab) ==
    /\ Alive
    /\ activeTab' = tab
    /\ Quiet
    /\ UNCHANGED <<pc, storage, state, now, selectedVehicleId, isEditorMode,
                   isVehicleModalOpen, isPartModalOpen, editingVehicle,
                   editingPart, tempPhoto, readers>>

\* a sidebar or bottom-bar item (App.tsx:582, 775)
Navigate(tab) ==
    /\ Alive
    /\ activeTab' = tab
    /\ selectedVehicleId' = IF tab # "parts" THEN Null ELSE selectedVehicleId
    /\ Quiet
    /\ UNCHANGED <<pc, storage, state, now, isEditorMode, isVehicleModalOpen,
                   isPartModalOpen, editingVehicle, editingPart, tempPhoto,
                   readers>>

\* "View All" on the dashboard
ViewAll ==
    /\ Alive
    /\ activeTab = "dashboard"
    /\ activeTab' = "vehicles"
    /\ Quiet
    /\ UNCHANGED <<pc, storage, state, now, selectedVehicleId, isEditorMode,
                   isVehicleModalOpen, isPartModalOpen, editingVehicle,
                   editingPart, tempPhoto, readers>>

\* a row of "Recently Updated Vehicles"
RecentRowClick(i) ==
    /\ Alive
    /\ activeTab = "dashboard"
    /\ i \in 1..Len(recentVehicles)
    /\ selectedVehicleId' = recentVehicles[i].id
    /\ activeTab' = "search"
    /\ Quiet
    /\ UNCHANGED <<pc, storage, state, now, isEditorMode, isVehicleModalOpen,
                   isPartModalOpen, editingVehicle, editingPart, tempPhoto,
                   readers>>

\* the vehicle select of the parts tab: "" or the id of a listed vehicle
SelectVehicle(value) ==
    /\ Alive
    /\ activeTab = "parts"
    /\ value \in {""} \cup IdsOf(state.vehicles)
    /\ selectedVehicleId' = value
    /\ Quiet
    /\ UNCHANGED <<pc, storage, state, now, activeTab, isEditorMode,
                   isVehicleModalOpen, isPartModalOpen, editingVehicle,
                   editingPart, tempPhoto, readers>>

\* a search result of the search tab (a query matching vehicle i was typed)
SearchResultClick(i) ==
    /\ Alive
    /\ activeTab = "search"
    /\ ~Truthy(selectedVehicleId)
    /\ i \in 1..Len(state.vehicles)
    /\ selectedVehicleId' = state.vehicles[i].id
    /\ Quiet
    /\ UNCHANGED <<pc, storage, state, now, activeTab, isEditorMode,
                   isVehicleModalOpen, isPartModalOpen, editingVehicle,
                   editingPart, tempPhoto, readers>>

\* the X of the search tab's detail view
SearchClose ==
    /\ Alive
    /\ activeTab = "search"
    /\ Truthy(selectedVehicleId)
    /\ selectedVehicleId' = Null
    /\ Quiet
    /\ UNCHANGED <<pc, storage, state, now, activeTab, isEditorMode,
                   isVehicleModalOpen, isPartModalOpen, editingVehicle,
                   editingPart, tempPhoto, readers>>

\* the Admin Mode / Technician Mode switch
ToggleEditorMode ==
    /\ Alive
    /\ isEditorMode' = ~isEditorMode
    /\ Quiet
    /\ UNCHANGED <<pc, storage, state, now, activeTab, selectedVehicleId,
                   isVehicleModalOpen, isPartModalOpen, editingVehicle,
                   editingPart, tempPhoto, readers>>

-----------------------------------------------------------------------------
(* Vehicle master: the form and its handlers *)

\* "Add New Vehicle"
OpenAddVehicle ==
    /\ Alive
    /\ activeTab = "vehicles"
    /\ isEditorMode
    /\ editingVehicle' = <<>>
    /\ tempPhoto' = Undefined
    /\ isVehicleModalOpen' = TRUE
    /\ QuietForm([opened EXCEPT !.vehicle = <<"add">>, !.photos = {Undefined}])
    /\ UNCHANGED <<pc, storage, state, now, activeTab, selectedVehicleId,
                   isEditorMode, isPartModalOpen, editingPart, readers>>

\* the edit button of row i
OpenEditVehicle(i) ==
    /\ Alive
    /\ activeTab = "vehicles"
    /\ isEditorMode
    /\ i \in 1..Len(state.vehicles)
    /\ editingVehicle' = <<state.vehicles[i].id>>
    /\ tempPhoto' = state.vehicles[i].photo
    /\ isVehicleModalOpen' = TRUE
    /\ QuietForm([opened EXCEPT !.vehicle = <<"edit", state.vehicles[i].id>>,
                                !.photos = {state.vehicles[i].photo}])
    /\ UNCHANGED <<pc, storage, state, now, activeTab, selectedVehicleId,
                   isEditorMode, isPartModalOpen, editingPart, readers>>

\* the X of the vehicle modal
CloseVehicleModal ==
    /\ Alive
    /\ isEditorMode
    /\ isVehicleModalOpen
    /\ isVehicleModalOpen' = FALSE
    /\ QuietForm([opened EXCEPT !.vehicle = <<>>, !.photos = {}])
    /\ UNCHANGED <<pc, storage, state, now, activeTab, selectedVehicleId,
                   isEditorMode, isPartModalOpen, editingVehicle, editingPart,
                   tempPhoto, readers>>

\* handlePhotoChange: a file was picked in the open form, a FileReader starts
handlePhotoChange(photo) ==
    /\ Alive
    /\ isEditorMode
    /\ isVehicleModalOpen
    /\ photo \notin readers
    /\ readers' = readers \cup {photo}
    /\ QuietForm([opened EXCEPT !.photos = @ \cup {photo}])
    /\ UNCHANGED <<pc, storage, state, now, activeTab, selectedVehicleId,
                   isEditorMode, isVehicleModalOpen, isPartModalOpen,
                   editingVehicle, editingPart, tempPhoto>>

\* reader.onloadend: whenever the read ends, whatever is open by then
ReaderLoadEnd(photo) ==
    /\ Alive
    /\ photo \in readers
    /\ readers' = readers \ {photo}
    /\ tempPhoto' = photo
    /\ Quiet
    /\ UNCHANGED <<pc, storage, state, now, activeTab, selectedVehicleId,
                   isEditorMode, isVehicleModalOpen, isPartModalOpen,
                   editingVehicle, editingPart>>

\* handleAddVehicle, called by the submit of the vehicle form; r is what the
\* random id expression gives when it is evaluated
handleAddVehicle(form, r) ==
    /\ Alive
    /\ IF Returns(isEditorMode)
       THEN Returned("handleAddVehicle")
       ELSE /\ LET newVehicle == NewVehicle(form, r)
               IN  /\ state' = [state EXCEPT
                          !.vehicles = UpsertList(state.vehicles, editingVehicle,
                                                  newVehicle)]
                   /\ last' = [op |-> "handleAddVehicle", id |-> newVehicle.id,
                               edit |-> editingVehicle # <<>>, confirmed |-> TRUE,
                               rec |-> <<newVehicle>>, sel |-> selectedVehicleId,
                               editor |-> isEditorMode,
                               editing |-> editingVehicle]
            /\ storage' = saveStoredData(state')
            /\ ops' = ops + 1
            /\ prev' = state
            /\ isVehicleModalOpen' = FALSE
            /\ editingVehicle' = <<>>
            /\ tempPhoto' = Undefined
            /\ UNCHANGED <<pc, outside, now, activeTab, selectedVehicleId, isEditorMode,
                           isPartModalOpen, editingPart, readers>>

\* the submit of the vehicle form: the modal is rendered in admin mode, open
SubmitVehicleForm(form, r) ==
    /\ isEditorMode
    /\ isVehicleModalOpen
    /\ handleAddVehicle(form, r)

\* deleteVehicle without the test of the answer to confirm()
deleteVehicle_IgnoresAnswer(id, confirmed) ==
    /\ Alive
    /\ IF Returns(isEditorMode)
       THEN Returned("deleteVehicle")
       ELSE /\ state' = DeleteVehicleState(state, id)
            /\ storage' = saveStoredData(state')
            /\ ops' = ops + 1
            /\ last' = [op |-> "deleteVehicle", id |-> id, edit |-> FALSE,
                        confirmed |-> confirmed, rec |-> <<>>,
                        sel |-> selectedVehicleId, editor |-> isEditorMode,
                        editing |-> <<>>]
            /\ prev' = state
            /\ UNCHANGED <<pc, outside, now, ui>>

\* deleteVehicle(id); confirmed is the answer to confirm()
deleteVehicle(id, confirmed) ==
    /\ Alive
    /\ IF Returns(isEditorMode)
       THEN Returned("deleteVehicle")
       ELSE /\ IF confirmed
               THEN /\ state' = DeleteVehicleState(state, id)
                    /\ storage' = saveStoredData(state')
                    /\ ops' = ops + 1
               ELSE UNCHANGED <<state, storage, ops>>
            /\ last' = [op |-> "deleteVehicle", id |-> id, edit |-> FALSE,
                        confirmed |-> confirmed, rec |-> <<>>,
                        sel |-> selectedVehicleId, editor |-> isEditorMode,
                        editing |-> <<>>]
            /\ prev' = state
            /\ UNCHANGED <<pc, outside, now, ui>>

\* the delete button of a row of the vehicle master (admin mode only)
ClickDeleteVehicle(id, confirmed) ==
    /\ activeTab = "vehicles"
    /\ isEditorMode
    /\ id \in IdsOf(state.vehicles)
    /\ deleteVehicle(id, confirmed)

-----------------------------------------------------------------------------
(* Vehicle parts: the form and its handlers *)

\* "Add New Part"
OpenAddPart ==
    /\ Alive
    /\ activeTab = "parts"
    /\ Truthy(selectedVehicleId)
    /\ isEditorMode
    /\ editingPart' = <<>>
    /\ isPartModalOpen' = TRUE
    /\ QuietForm([opened EXCEPT !.part = <<"add">>])
    /\ UNCHANGED <<pc, storage, state, now, activeTab, selectedVehicleId,
                   isEditorMode, isVehicleModalOpen, editingVehicle, tempPhoto,
                   readers>>

\* the edit button of row i of the selected vehicle's parts
OpenEditPart(i) ==
    /\ Alive
    /\ activeTab = "parts"
    /\ Truthy(selectedVehicleId)
    /\ isEditorMode
    /\ i \in 1..Len(vehicleParts)
    /\ editingPart' = <<vehicleParts[i].id>>
    /\ isPartModalOpen' = TRUE
    /\ QuietForm([opened EXCEPT !.part = <<"edit", vehicleParts[i].id>>])
    /\ UNCHANGED <<pc, storage, state, now, activeTab, selectedVehicleId,
                   isEditorMode, isVehicleModalOpen, editingVehicle, tempPhoto,
                   readers>>

\* the X of the part modal
ClosePartModal ==
    /\ Alive
    /\ isEditorMode
    /\ isPartModalOpen
    /\ isPartModalOpen' = FALSE
    /\ QuietForm([opened EXCEPT !.part = <<>>])
    /\ UNCHANGED <<pc, storage, state, now, activeTab, selectedVehicleId,
                   isEditorMode, isVehicleModalOpen, editingVehicle, editingPart,
                   tempPhoto, readers>>

\* handleAddPart, called by the submit of the part form
handleAddPart(form, r) ==
    /\ Alive
    /\ IF Returns(isEditorMode)
       THEN Returned("handleAddPart")
       ELSE /\ LET newPart == NewPart(form, r)
               IN  /\ state' = [state EXCEPT
                          !.parts = UpsertList(state.parts, editingPart, newPart)]
                   /\ last' = [op |-> "handleAddPart", id |-> newPart.id,
                               edit |-> editingPart # <<>>, confirmed |-> TRUE,
                               rec |-> <<newPart>>, sel |-> selectedVehicleId,
                               editor |-> isEditorMode,
                               editing |-> editingPart]
            /\ storage' = saveStoredData(state')
            /\ ops' = ops + 1
            /\ prev' = state
            /\ isPartModalOpen' = FALSE
            /\ editingPart' = <<>>
            /\ UNCHANGED <<pc, outside, now, activeTab, selectedVehicleId, isEditorMode,
                           isVehicleModalOpen, editingVehicle, tempPhoto, readers>>

\* the submit of the part form: the modal is rendered in admin mode, open
SubmitPartForm(form, r) ==
    /\ isEditorMode
    /\ isPartModalOpen
    /\ handleAddPart(form, r)

\* deletePart(id); confirmed is the answer to confirm()
deletePart(id, confirmed) ==
    /\ Alive
    /\ IF Returns(isEditorMode)
       THEN Returned("deletePart")
       ELSE /\ IF confirmed
               THEN /\ state' = DeletePartState(state, id)
                    /\ storage' = saveStoredData(state')
                    /\ ops' = ops + 1
               ELSE UNCHANGED <<state, storage, ops>>
            /\ last' = [op |-> "deletePart", id |-> id, edit |-> FALSE,
                        confirmed |-> confirmed, rec |-> <<>>,
                        sel |-> selectedVehicleId, editor |-> isEditorMode,
                        editing |-> <<>>]
            /\ prev' = state
            /\ UNCHANGED <<pc, outside, now, ui>>

\* the delete button of a row of the selected vehicle's parts (admin mode)
ClickDeletePart(id, confirmed) ==
    /\ activeTab = "parts"
    /\ Truthy(selectedVehicleId)
    /\ isEditorMode
    /\ id \in IdsOf(vehicleParts)
    /\ deletePart(id, confirmed)

-----------------------------------------------------------------------------
(* The application with the clock and the photo held fixed: Tick and the   *)
(* two photo steps are not among its steps, no handler reads updatedAt or  *)
(* photo to decide what it does.                                           *)

Next ==
    \/ Mount
    \/ Reload
    \/ \E i \in 1..Len(NAVIGATION) : Navigate(NAVIGATION[i])
    \/ ViewAll
    \/ \E i \in 1..RecentCount : RecentRowClick(i)
    \/ \E value \in {""} \cup IdsOf(state.vehicles) : SelectVehicle(value)
    \/ \E i \in 1..Len(state.vehicles) : SearchResultClick(i)
    \/ SearchClose
    \/ ToggleEditorMode
    \/ OpenAddVehicle
    \/ \E i \in 1..Len(state.vehicles) : OpenEditVehicle(i)
    \/ CloseVehicleModal
    \/ \E form \in VehicleForms, r \in RandomIds : SubmitVehicleForm(form, r)
    \/ \E id \in IdsOf(state.vehicles), c \in BOOLEAN : ClickDeleteVehicle(id, c)
    \/ OpenAddPart
    \/ \E i \in 1..Len(state.parts) : OpenEditPart(i)
    \/ ClosePartModal
    \/ \E form \in PartForms, r \in RandomIds : SubmitPartForm(form, r)
    \/ \E id \in IdsOf(state.parts), c \in BOOLEAN : ClickDeletePart(id, c)

Spec == Init /\ [][Next]_vars

-----------------------------------------------------------------------------
(* The application opened on a slot an earlier visit has written *)

\* AppStates an earlier visit saved: the seed with a part added while no
\* vehicle was selected (vehicleId: selectedVehicleId || '')
EarlierStates ==
    { [SeedData EXCEPT !.parts = Append(@,
          [id |-> "r1", vehicleId |-> "",
           itemNumber |-> f.itemNumber, thirdItemNumber |-> f.thirdItemNumber,
           itemDescription |-> f.itemDescription,
           descriptionLine2 |-> f.descriptionLine2, quantity |-> f.quantity,
           supplierName |-> f.supplierName, installedDate |-> f.installedDate,
           category |-> f.category])] : f \in PartForms }

InitReload ==
    /\ pc = "boot"
    /\ storage \in {Absent} \cup {saveStoredData(st) : st \in EarlierStates}
    /\ state = EmptyState
    /\ activeTab = "dashboard"
    /\ selectedVehicleId = Null
    /\ isEditorMode = FALSE
    /\ isVehicleModalOpen = FALSE
    /\ isPartModalOpen = FALSE
    /\ editingVehicle = <<>>
    /\ editingPart = <<>>
    /\ tempPhoto = Undefined
    /\ readers = {}
    /\ now = 0
    /\ ops = 0
    /\ tabs = <<>>
    /\ advice = <<>>
    /\ opened = NoForm
    /\ last = NoOp
    /\ prev = EmptyState

SpecReload == InitReload /\ [][Next]_vars

\* Spec reaches the AppStates of EarlierStates
EarlierStatesNotReached == state \notin EarlierStates

-----------------------------------------------------------------------------
(* The four record handlers called in either role, whatever is rendered *)

NextHandlers ==
    \/ Mount
    \/ \E i \in 1..Len(NAVIGATION) : Navigate(NAVIGATION[i])
    \/ \E value \in {""} \cup IdsOf(state.vehicles) : SelectVehicle(value)
    \/ ToggleEditorMode
    \/ \E i \in 1..Len(state.vehicles) : OpenEditVehicle(i)
    \/ \E i \in 1..Len(state.parts) : OpenEditPart(i)
    \/ \E form \in VehicleForms, r \in RandomIds : handleAddVehicle(form, r)
    \/ \E id \in IdsOf(state.vehicles), c \in BOOLEAN : deleteVehicle(id, c)
    \/ \E form \in PartForms, r \in RandomIds : handleAddPart(form, r)
    \/ \E id \in IdsOf(state.parts), c \in BOOLEAN : deletePart(id, c)

SpecHandlers == Init /\ [][NextHandlers]_vars

-----------------------------------------------------------------------------
(* Two browser tabs on the same localStorage slot.  Each tab is an App of   *)
(* its own: it loads the slot when it mounts and its save effect writes its *)
(* AppState after the mount and after every setState.                       *)

Tabs == {"tabA", "tabB"}

\* the AppState setState produces from st, by what the handlers compute
TabChanges(st) ==
    { [st EXCEPT !.vehicles = UpsertList(st.vehicles, <<>>, NewVehicle(form, r))] :
          form \in VehicleForms, r \in RandomIds }
    \cup { DeleteVehicleState(st, id) : id \in IdsOf(st.vehicles) }
    \cup { DeletePartState(st, id) : id \in IdsOf(st.parts) }

InitTabs ==
    /\ pc = "tabs"
    /\ storage \in {Absent, EmptyText}
    /\ state = EmptyState
    /\ activeTab = "dashboard"
    /\ selectedVehicleId = Null
    /\ isEditorMode = FALSE
    /\ isVehicleModalOpen = FALSE
    /\ isPartModalOpen = FALSE
    /\ editingVehicle = <<>>
    /\ editingPart = <<>>
    /\ tempPhoto = Undefined
    /\ readers = {}
    /\ now = 0
    /\ ops = 0
    /\ tabs = [t \in Tabs |-> [pc |-> "boot", state |-> EmptyState]]
    /\ advice = <<>>
    /\ opened = NoForm
    /\ last = NoOp
    /\ prev = EmptyState

\* tab t opens the page: useState(getStoredData()), then the save effect
TabMount(t) ==
    /\ pc = "tabs"
    /\ tabs[t].pc = "boot"
    /\ LET r == getStoredData(storage)
       IN  IF r.threw
           THEN /\ tabs' = [tabs EXCEPT ![t].pc = "crashed"]
                /\ UNCHANGED storage
           ELSE /\ tabs' = [tabs EXCEPT ![t] = [pc |-> "running", state |-> r.value]]
                /\ storage' = saveStoredData(r.value)
    /\ last' = [NoOp EXCEPT !.op = "tabMount", !.id = t]
    /\ prev' = tabs[t].state
    /\ UNCHANGED <<pc, state, ui, now, ops, advice, opened>>

\* tab t changes its AppState (setState) and its save effect runs
TabChange(t, st) ==
    /\ pc = "tabs"
    /\ tabs[t].pc = "running"
    /\ ops < MaxOps
    /\ st \in TabChanges(tabs[t].state)
    /\ tabs' = [tabs EXCEPT ![t].state = st]
    /\ storage' = saveStoredData(st)
    /\ ops' = ops + 1
    /\ last' = [NoOp EXCEPT !.op = "tabChange", !.id = t]
    /\ prev' = tabs[t].state
    /\ UNCHANGED <<pc, state, ui, now, advice, opened>>

NextTabs ==
    \/ \E t \in Tabs : TabMount(t)
    \/ \E t \in Tabs : \E st \in TabChanges(tabs[t].state) : TabChange(t, st)

SpecTabs == InitTabs /\ [][NextTabs]_vars

-----------------------------------------------------------------------------
(* geminiService (src/unnamed/part_001): the advisory service.  Both        *)
(* functions are async; the promise they return is rejected when an         *)
(* exception leaves the function body.                                      *)

\* the return value of the catch block of getPartMaintenanceAdvice
AdviceFallback == "Maintenance advice unavailable at the moment."

\* response.text: undefined (no candidate), or the text generated
ResponseTexts ==
    {Undefined, "", "[]",
     "[{\"name\":\"Oil filter\",\"category\":\"Engine\",\"interval\":\"10000 km\"}]",
     "Here are the parts: [", "Check the pad wear every 10000 km."}

\* what ai.models.generateContent does: it throws (network, quota, key) or
\* gives a response
Generations ==
    {[threw |-> TRUE, text |-> Undefined]}
    \cup {[threw |-> FALSE, text |-> t] : t \in ResponseTexts}

\* JSON.parse of a response text: the value of the texts that are JSON,
\* a SyntaxError for every other text
JSONparseText(text) ==
    IF text = "[]" THEN [threw |-> FALSE, value |-> <<>>]
    ELSE IF text =
         "[{\"name\":\"Oil filter\",\"category\":\"Engine\",\"interval\":\"10000 km\"}]"
    THEN [threw |-> FALSE,
          value |-> <<[name |-> "Oil filter", category |-> "Engine",
                       interval |-> "10000 km"]>>]
    ELSE [threw |-> TRUE, value |-> Undefined]

\* getPartMaintenanceAdvice(partName, vehicleModel), g being what the
\* generation request for these arguments does
getPartMaintenanceAdvice(partName, vehicleModel, g) ==
    IF g.threw
    THEN [rejected |-> FALSE, value |-> AdviceFallback]
    ELSE [rejected |-> FALSE, value |-> g.text]

\* suggestCommonParts with JSON.parse after the try block
suggestCommonParts_ParseOutsideTry(vehicleType, g) ==
    IF g.threw
    THEN [rejected |-> FALSE, value |-> <<>>]
    ELSE LET parsed == JSONparseText(IF Truthy(g.text) THEN g.text ELSE "[]")
         IN  IF parsed.threw
             THEN [rejected |-> TRUE, value |-> Undefined]
             ELSE [rejected |-> FALSE, value |-> parsed.value]

\* suggestCommonParts(vehicleType): JSON.parse(response.text || '[]') inside
\* the try block, return [] in the catch block
suggestCommonParts(vehicleType, g) ==
    LET body == IF g.threw
                THEN [threw |-> TRUE, value |-> Undefined]
                ELSE JSONparseText(IF Truthy(g.text) THEN g.text ELSE "[]")
    IN  IF body.threw
        THEN [rejected |-> FALSE, value |-> <<>>]
        ELSE [rejected |-> FALSE, value |-> body.value]

\* the arguments a caller has at hand: descriptions of parts, models and
\* types of vehicles
AdviceCalls ==
    { [fn |-> "getPartMaintenanceAdvice", args |-> <<p, m>>, gen |-> g,
       done |-> FALSE, result |-> <<>>] :
          p \in {"OIL FILTER", "BRAKE PAD", "SERVICE STICKERS"},
          m \in {"Prima", "9400", "Dzire"}, g \in Generations }
    \cup
    { [fn |-> "suggestCommonParts", args |-> <<t>>, gen |-> g,
       done |-> FALSE, result |-> <<>>] :
          t \in {"Truck", "Bus", "Car"}, g \in Generations }

InitAdvice ==
    /\ pc = "advice"
    /\ advice \in AdviceCalls
    /\ storage = Absent
    /\ state = EmptyState
    /\ activeTab = "dashboard"
    /\ selectedVehicleId = Null
    /\ isEditorMode = FALSE
    /\ isVehicleModalOpen = FALSE
    /\ isPartModalOpen = FALSE
    /\ editingVehicle = <<>>
    /\ editingPart = <<>>
    /\ tempPhoto = Undefined
    /\ readers = {}
    /\ now = 0
    /\ ops = 0
    /\ tabs = <<>>
    /\ opened = NoForm
    /\ last = NoOp
    /\ prev = EmptyState

\* await getPartMaintenanceAdvice(partName, vehicleModel)
CallGetPartMaintenanceAdvice ==
    /\ pc = "advice"
    /\ advice.fn = "getPartMaintenanceAdvice"
    /\ ~advice.done
    /\ advice' = [advice EXCEPT
          !.done = TRUE,
          !.result = getPartMaintenanceAdvice(advice.args[1], advice.args[2],
                                              advice.gen)]
    /\ UNCHANGED <<pc, storage, state, ui, now, ops, tabs, opened, last, prev>>

\* await suggestCommonParts(vehicleType)
CallSuggestCommonParts ==
    /\ pc = "advice"
    /\ advice.fn = "suggestCommonParts"
    /\ ~advice.done
    /\ advice' = [advice EXCEPT
          !.done = TRUE,
          !.result = suggestCommonParts(advice.args[1], advice.gen)]
    /\ UNCHANGED <<pc, storage, state, ui, now, ops, tabs, opened, last, prev>>

NextAdvice == CallGetPartMaintenanceAdvice \/ CallSuggestCommonParts

SpecAdvice == InitAdvice /\ [][NextAdvice]_vars

-----------------------------------------------------------------------------
(* The vehicle master with a running clock *)

NextVehicles ==
    \/ Mount
    \/ Tick
    \/ \E i \in 1..Len(NAVIGATION) : Navigate(NAVIGATION[i])
    \/ ToggleEditorMode
    \/ OpenAddVehicle
    \/ \E i \in 1..Len(state.vehicles) : OpenEditVehicle(i)
    \/ CloseVehicleModal
    \/ \E form \in VehicleForms, r \in RandomIds : SubmitVehicleForm(form, r)
    \/ \E id \in IdsOf(state.vehicles), c \in BOOLEAN : ClickDeleteVehicle(id, c)

SpecVehicles == Init /\ [][NextVehicles]_vars

-----------------------------------------------------------------------------
(* The store alone: save an AppState, then load it *)

\* the longest vehicles list saved
MaxStoreVehicles == 2

\* vehicles as the program holds them: a seed vehicle, or one built by
\* handleAddVehicle (chassisNumber a string of the form, photo tempPhoto)
StoreVehicles ==
    {INITIAL_VEHICLES[i] : i \in 1..Len(INITIAL_VEHICLES)}
    \cup { [id |-> "r1", vehicleNumber |-> f.vehicleNumber, type |-> f.type,
            brand |-> f.brand, model |-> f.model, year |-> f.year,
            chassisNumber |-> c, photo |-> ph, updatedAt |-> 1] :
           f \in VehicleForms, c \in {"", "CH-77"},
           ph \in {Undefined} \cup Photos }

SeqsUpTo(S, n) == UNION {[1..k -> S] : k \in 0..n}

StoreStates ==
    { [vehicles |-> vs, parts |-> ps] :
        vs \in SeqsUpTo(StoreVehicles, MaxStoreVehicles),
        ps \in {<<>>, INITIAL_PARTS, <<INITIAL_PARTS[2]>>} }

InitStore ==
    /\ pc = "store"
    /\ storage \in {Absent, CorruptText}
    /\ state \in StoreStates
    /\ prev = state
    /\ activeTab = "dashboard"
    /\ selectedVehicleId = Null
    /\ isEditorMode = FALSE
    /\ isVehicleModalOpen = FALSE
    /\ isPartModalOpen = FALSE
    /\ editingVehicle = <<>>
    /\ editingPart = <<>>
    /\ tempPhoto = Undefined
    /\ readers = {}
    /\ now = 0
    /\ ops = 0
    /\ tabs = <<>>
    /\ advice = <<>>
    /\ opened = NoForm
    /\ last = NoOp

\* saveStoredData(state)
StoreSave ==
    /\ pc = "store"
    /\ storage' = saveStoredData(state)
    /\ pc' = "saved"
    /\ last' = [NoOp EXCEPT !.op = "save"]
    /\ UNCHANGED <<state, prev, ui, now, ops, outside>>

\* state = getStoredData()
StoreLoad ==
    /\ pc = "saved"
    /\ LET r == getStoredData(storage)
       IN  /\ pc' = IF r.threw THEN "crashed" ELSE "loaded"
           /\ state' = r.value
    /\ last' = [NoOp EXCEPT !.op = "load"]
    /\ UNCHANGED <<storage, prev, ui, now, ops, outside>>

NextStore == StoreSave \/ StoreLoad

SpecStore == InitStore /\ [][NextStore]_vars

-----------------------------------------------------------------------------
(* The vehicle master with the photo picker: a file read ends some time     *)
(* after it was started                                                     *)

NextPhotos ==
    \/ NextVehicles
    \/ \E photo \in Photos : handlePhotoChange(photo)
    \/ \E photo \in Photos : ReaderLoadEnd(photo)

SpecPhotos == Init /\ [][NextPhotos]_vars

-----------------------------------------------------------------------------
(* The stats memo alone: it is computed from a list of vehicles in any      *)
(* order and with any updatedAt, and the list is looked at afterwards.      *)

MaxStatsVehicles == 4

\* vehicles of the lists: the seed vehicles and one built by
\* handleAddVehicle, each with every updatedAt of the clock
StatsVehicles ==
    { [v EXCEPT !.updatedAt = t] :
        v \in {INITIAL_VEHICLES[i] : i \in 1..Len(INITIAL_VEHICLES)}
                \cup { [id |-> "r1", vehicleNumber |-> f.vehicleNumber,
                        type |-> f.type, brand |-> f.brand,
                        model |-> f.model, year |-> f.year,
                        chassisNumber |-> f.chassisNumber,
                        photo |-> Undefined, updatedAt |-> 0] :
                      f \in VehicleForms },
        t \in 0..MaxClock }

InitStats ==
    /\ pc = "stats"
    /\ storage = Absent
    /\ state \in { [vehicles |-> vs, parts |-> INITIAL_PARTS] :
                     vs \in SeqsUpTo(StatsVehicles, MaxStatsVehicles) }
    /\ prev = state
    /\ activeTab = "dashboard"
    /\ selectedVehicleId = Null
    /\ isEditorMode = FALSE
    /\ isVehicleModalOpen = FALSE
    /\ isPartModalOpen = FALSE
    /\ editingVehicle = <<>>
    /\ editingPart = <<>>
    /\ tempPhoto = Undefined
    /\ readers = {}
    /\ now = 0
    /\ ops = 0
    /\ tabs = <<>>
    /\ advice = <<>>
    /\ opened = NoForm
    /\ last = NoOp

\* useMemo(() => ..., [state]): the memo is computed, last.rec is its
\* recentVehicles
ComputeStats ==
    /\ pc = "stats"
    /\ LET r == stats(state)
       IN  /\ state' = [state EXCEPT !.vehicles = r.vehicles]
           /\ last' = [NoOp EXCEPT !.op = "stats", !.rec = r.recentVehicles]
    /\ prev' = state
    /\ pc' = "rendered"
    /\ UNCHANGED <<storage, ui, now, ops, outside>>

NextStats == ComputeStats

SpecStats == InitStats /\ [][NextStats]_vars

-----------------------------------------------------------------------------
(* C1..C10 *)

\* C1: every part's vehicleId is the id of a vehicle in the vehicles list, in
\* every state the running application reaches.
C1_PartsReferenceVehicles ==
    pc = "running" =>
        \A i \in 1..Len(state.parts) :
            state.parts[i].vehicleId \in IdsOf(state.vehicles)

\* C2: after a confirmed deleteVehicle(id) the state holds no vehicle with
\* that id and no part whose vehicleId is that id.
C2_DeleteVehicleCascades ==
    (last.op = "deleteVehicle" /\ last.confirmed) =>
        /\ \A i \in 1..Len(state.vehicles) : state.vehicles[i].id # last.id
        /\ \A i \in 1..Len(state.parts) : state.parts[i].vehicleId # last.id

\* a confirmed delete of a vehicle that had a part, another vehicle remaining
C2_Witness ==
    /\ last.op = "deleteVehicle" /\ last.confirmed
    /\ \E i \in 1..Len(prev.vehicles) : prev.vehicles[i].id = last.id
    /\ \E i \in 1..Len(prev.parts) : prev.parts[i].vehicleId = last.id
    /\ Len(state.vehicles) >= 1
    /\ Len(state.parts) >= 1

\* C3: opening the application over a stored text that is not valid JSON
\* raises no error and gives the seed dataset.
C3_UnparsableLoadsSeed ==
    (last.op = "mount" /\ last.id = "unparsable") =>
        (pc = "running" /\ state = SeedData)

\* C4: with nothing stored, the loaded state is exactly the seed: vehicles
\* v1, v2 and parts p1 (of v1), p2 (of v2), and nothing else.
C4_AbsentLoadsSeed ==
    (last.op = "mount" /\ last.id = "absent") =>
        /\ pc = "running"
        /\ [i \in 1..Len(state.vehicles) |-> state.vehicles[i].id] = <<"v1", "v2">>
        /\ [i \in 1..Len(state.parts) |-> state.parts[i].id] = <<"p1", "p2">>
        /\ [i \in 1..Len(state.parts) |-> state.parts[i].vehicleId] = <<"v1", "v2">>
        /\ state.vehicles = INITIAL_VEHICLES
        /\ state.parts = INITIAL_PARTS

\* the application was opened with nothing stored and runs
C4_Witness ==
    last.op = "mount" /\ last.id = "absent" /\ pc = "running"

C6_VehicleUpsert ==
    last.op = "handleAddVehicle" =>
        LET v == last.rec[1]
            old == prev.vehicles
            new == state.vehicles
        IN  IF v.id \notin IdsOf(old)
            THEN new = Append(old, v)
            ELSE /\ Len(new) = Len(old)
                 /\ \E i \in 1..Len(old) :
                       old[i].id = v.id /\ new = [old EXCEPT ![i] = v]

\* C7: saving a part follows the same rule, keyed by the part's id.
C7_PartUpsert ==
    last.op = "handleAddPart" =>
        LET p == last.rec[1]
            old == prev.parts
            new == state.parts
        IN  IF p.id \notin IdsOf(old)
            THEN new = Append(old, p)
            ELSE /\ Len(new) = Len(old)
                 /\ \E i \in 1..Len(old) :
                       old[i].id = p.id /\ new = [old EXCEPT ![i] = p]

\* C8: no two vehicles of the list have the same id, and no two parts have
\* the same id, the ids of new records being generated by the program.
C8_UniqueIds ==
    pc = "running" =>
        /\ \A i, j \in 1..Len(state.vehicles) :
              state.vehicles[i].id = state.vehicles[j].id => i = j
        /\ \A i, j \in 1..Len(state.parts) :
              state.parts[i].id = state.parts[j].id => i = j

\* C9: an edit of a vehicle leaves the set of vehicle ids as it was; the set
\* grows only by an add and shrinks only by a delete.
C9_VehicleIdImmutable ==
    LET before == IdsOf(prev.vehicles)
        after == IdsOf(state.vehicles)
    IN  pc = "running" =>
          /\ (last.op = "handleAddVehicle" /\ last.edit) => after = before
          /\ after \ before # {} => (last.op = "handleAddVehicle" /\ ~last.edit)
          /\ before \ after # {} => (last.op = "deleteVehicle" /\ last.confirmed)

\* C10: a confirmed deletePart(id) leaves the vehicles list as it was and
\* keeps every part with another id, in the same order and unchanged.
C10_DeletePartOnly ==
    (last.op = "deletePart" /\ last.confirmed) =>
        /\ state.vehicles = prev.vehicles
        /\ state.parts = SelectSeq(prev.parts, LAMBDA p : p.id # last.id)

\* a confirmed delete of one part of several
C10_Witness ==
    /\ last.op = "deletePart" /\ last.confirmed
    /\ Len(state.parts) >= 1
    /\ Len(state.parts) < Len(prev.parts)
    /\ Len(state.vehicles) >= 1

-----------------------------------------------------------------------------
(* C11..C20 *)

\* C11: in technician mode (isEditorMode false) submitting the vehicle form,
\* submitting the part form, deleteVehicle and deletePart leave the vehicles
\* and parts exactly as they were, and the stored text with them.
C11_TechnicianChangesNothing ==
    (last.op \in {"handleAddVehicle", "handleAddPart", "deleteVehicle",
                  "deletePart"} /\ ~last.editor) =>
        /\ state = prev
        /\ storage = saveStoredData(prev)

\* a handler was called in technician mode with a form left open behind it
C11_Witness ==
    /\ last.op \in {"handleAddVehicle", "handleAddPart"}
    /\ ~last.editor
    /\ ~isEditorMode
    /\ isVehicleModalOpen \/ isPartModalOpen
    /\ Len(state.vehicles) >= 1
    /\ Len(state.parts) >= 1

\* C12: a vehicle add or edit gives the saved vehicle the clock's reading at
\* the time of the operation as updatedAt; the clock never going back, the
\* edited vehicle's updatedAt is not earlier than before, and every other
\* vehicle keeps its updatedAt.
C12_UpdatedAtIsNow ==
    (last.op = "handleAddVehicle" /\ last.editor) =>
        LET v == last.rec[1]
            old == prev.vehicles
            new == state.vehicles
        IN  /\ v.updatedAt = now
            /\ IF last.editing = <<>>
               THEN /\ Len(new) = Len(old) + 1
                    /\ new[Len(new)].updatedAt = now
                    /\ \A i \in 1..Len(old) : new[i].updatedAt = old[i].updatedAt
               ELSE /\ Len(new) = Len(old)
                    /\ \A i \in 1..Len(old) :
                          IF old[i].id = last.editing[1]
                          THEN /\ new[i].updatedAt = now
                               /\ new[i].updatedAt >= old[i].updatedAt
                          ELSE new[i].updatedAt = old[i].updatedAt

\* an edit at a later time than the vehicle's last change, another vehicle
\* being in the list
C12_Witness ==
    /\ last.op = "handleAddVehicle" /\ last.editor /\ last.editing # <<>>
    /\ Len(state.vehicles) >= 2
    /\ \E i \in 1..Len(prev.vehicles) :
          /\ prev.vehicles[i].id = last.editing[1]
          /\ state.vehicles[i].updatedAt > prev.vehicles[i].updatedAt

\* C13: a save overwrites the whole stored text: after two tabs that loaded
\* the same text have each made a change and saved, the stored text is exactly
\* the AppState of the tab that saved last, with nothing of the other tab's
\* change merged in.
C13_LastWriterWins ==
    (pc = "tabs" /\ last.op \in {"tabMount", "tabChange"}
                /\ tabs[last.id].pc = "running") =>
        /\ storage = saveStoredData(tabs[last.id].state)
        /\ getStoredData(storage).value = tabs[last.id].state

\* both tabs loaded the seed, one changed its state and saved, then the other
\* did: the two states differ and the stored text is the later writer's
C13_Witness ==
    /\ pc = "tabs" /\ last.op = "tabChange" /\ ops = 2
    /\ \A t \in Tabs : tabs[t].pc = "running" /\ tabs[t].state # SeedData
    /\ tabs["tabA"].state # tabs["tabB"].state
    /\ \E t \in Tabs :
          /\ t # last.id
          /\ \E i \in 1..Len(tabs[t].state.vehicles) :
                tabs[t].state.vehicles[i].id
                    \notin IdsOf(getStoredData(storage).value.vehicles)

\* C14: the advisory service raises nothing to its caller: when the
\* generation request throws, getPartMaintenanceAdvice gives the fallback
\* string and suggestCommonParts the empty list, and so does
\* suggestCommonParts when the response text is not JSON.
C14_AdviceNeverRaises ==
    (pc = "advice" /\ advice.done) =>
        /\ ~advice.result.rejected
        /\ (advice.fn = "getPartMaintenanceAdvice" /\ advice.gen.threw)
              => advice.result.value = AdviceFallback
        /\ (advice.fn = "suggestCommonParts" /\ advice.gen.threw)
              => advice.result.value = <<>>
        /\ (advice.fn = "suggestCommonParts" /\ ~advice.gen.threw
              /\ Truthy(advice.gen.text) /\ JSONparseText(advice.gen.text).threw)
              => advice.result.value = <<>>

\* suggestCommonParts has answered a response whose text is not JSON
C14_Witness ==
    /\ pc = "advice" /\ advice.done
    /\ advice.fn = "suggestCommonParts"
    /\ ~advice.gen.threw
    /\ advice.gen.text = "Here are the parts: ["
    /\ advice.result.value = <<>>

\* C15: the AppState is saved after the initial load and after every change:
\* in every state of the running application the stored text decodes to the
\* current vehicles and parts, so what a reload loads is the AppState as it
\* was after the last operation.
C15_EveryChangeSaved ==
    /\ pc = "running" =>
          /\ storage = saveStoredData(state)
          /\ ~getStoredData(storage).threw
          /\ getStoredData(storage).value = state
    /\ (pc = "boot" /\ last.op = "reload") =>
          /\ ~getStoredData(storage).threw
          /\ getStoredData(storage).value = prev

\* the page was reloaded after two changes and shows the changed state
C15_Witness ==
    /\ pc = "running"
    /\ last.op = "mount" /\ last.id = "json"
    /\ ops = 2
    /\ state # SeedData
    /\ getStoredData(storage).value = state

\* C16: the seed is used on the first run only: once an AppState has been
\* saved, a reload loads that AppState and not the seed; after every vehicle
\* (and with it every part) was deleted, a reload gives the empty state.
C16_SeedOnlyOnFirstRun ==
    /\ (pc = "boot" /\ last.op = "reload") =>
          LET r == getStoredData(storage)
          IN  /\ storage.kind = "json"
              /\ r.value = prev
              /\ prev # SeedData => r.value # SeedData
              /\ prev.vehicles = <<>> => r.value = EmptyState
    /\ (last.op = "mount" /\ last.id = "json") =>
          /\ pc = "running"
          /\ state = JSONparse(storage)

\* C17: a confirmed deleteVehicle(id) keeps every vehicle with another id and
\* every part with another vehicleId, each with the same content and in the
\* same relative order as before.
C17_DeleteVehicleFrame ==
    (last.op = "deleteVehicle" /\ last.editor /\ last.confirmed) =>
        /\ state.vehicles = SelectSeq(prev.vehicles, LAMBDA v : v.id # last.id)
        /\ state.parts = SelectSeq(prev.parts, LAMBDA p : p.vehicleId # last.id)

\* one of three vehicles was deleted; two vehicles and a part remain
C17_Witness ==
    /\ last.op = "deleteVehicle" /\ last.editor /\ last.confirmed
    /\ Len(prev.vehicles) = 3
    /\ Len(state.vehicles) = 2
    /\ Len(state.parts) >= 1
    /\ Len(state.parts) < Len(prev.parts)

\* C18: the parts view of the selected vehicle lists exactly the parts whose
\* vehicleId is the selected id, in the order of the parts list, and no part
\* of another vehicle.
C18_PartsViewIsFilter ==
    (pc = "running" /\ Truthy(selectedVehicleId)) =>
        LET all == state.parts
            match(i) == all[i].vehicleId = selectedVehicleId
            rank(i) == Cardinality({j \in 1..i : match(j)})
        IN  /\ Len(vehicleParts) = Cardinality({i \in 1..Len(all) : match(i)})
            /\ \A k \in 1..Len(vehicleParts) :
                  vehicleParts[k].vehicleId = selectedVehicleId
            /\ \A i \in 1..Len(all) :
                  match(i) => vehicleParts[rank(i)] = all[i]

\* the selected vehicle has two parts, a part of another vehicle lying
\* between them in the parts list
C18_Witness ==
    /\ pc = "running" /\ Truthy(selectedVehicleId)
    /\ Len(vehicleParts) = 2
    /\ Len(state.parts) = 3
    /\ state.parts[2].vehicleId # selectedVehicleId

\* C19: whenever selectedVehicleId is a non-empty id, a vehicle with that id
\* is in the vehicles list.
C19_SelectedVehicleExists ==
    (pc = "running" /\ Truthy(selectedVehicleId)) =>
        selectedVehicleId \in IdsOf(state.vehicles)

\* a vehicle is selected in admin mode after another vehicle was deleted
C19_Witness ==
    /\ pc = "running" /\ Truthy(selectedVehicleId)
    /\ isEditorMode
    /\ activeTab = "parts"
    /\ ops >= 1
    /\ Len(state.vehicles) = 1
    /\ selectedVehicleId \in IdsOf(state.vehicles)

\* C20: the part handleAddPart saves takes its vehicleId from the vehicle
\* selected when the form is submitted, and in an edit this is the vehicleId
\* the part had before: an edit moves no part to another vehicle.
C20_EditKeepsVehicle ==
    (last.op = "handleAddPart" /\ last.editor) =>
        /\ last.rec[1].vehicleId = (IF Truthy(last.sel) THEN last.sel ELSE "")
        /\ last.editing # <<>> =>
              \A i \in 1..Len(prev.parts) :
                  prev.parts[i].id = last.editing[1] =>
                      state.parts[i].vehicleId = prev.parts[i].vehicleId

-----------------------------------------------------------------------------
(* C21..C24 *)

\* C21: the photo a vehicle save stores is the photo the vehicle had when its
\* form was opened (none for a new vehicle) or an image picked while that
\* form was open; a file read started in an earlier form does not end up on
\* the vehicle of a later form.
C21_PhotoBelongsToSave ==
    (last.op = "handleAddVehicle" /\ last.editor) =>
        last.rec[1].photo \in opened.photos

\* C22: an edit form that was opened and closed without a submit overwrites
\* nothing later: a submit of a form opened by 'Add New' appends a record
\* with an id no record had and leaves every earlier record as it was; a
\* submit replaces a record only if the form was opened by the edit button of
\* that record.  The same for parts.
C22_AbandonedEditIsInert ==
    /\ (last.op = "handleAddVehicle" /\ last.editor) =>
          /\ opened.vehicle = <<"add">> =>
                /\ state.vehicles = Append(prev.vehicles, last.rec[1])
                /\ last.rec[1].id \notin IdsOf(prev.vehicles)
          /\ \A i \in 1..Len(prev.vehicles) :
                (i > Len(state.vehicles) \/ state.vehicles[i] # prev.vehicles[i])
                    => opened.vehicle = <<"edit", prev.vehicles[i].id>>
    /\ (last.op = "handleAddPart" /\ last.editor) =>
          /\ opened.part = <<"add">> =>
                /\ state.parts = Append(prev.parts, last.rec[1])
                /\ last.rec[1].id \notin IdsOf(prev.parts)
          /\ \A i \in 1..Len(prev.parts) :
                (i > Len(state.parts) \/ state.parts[i] # prev.parts[i])
                    => opened.part = <<"edit", prev.parts[i].id>>

\* C23: when the answer to the confirmation prompt is no, deleteVehicle and
\* deletePart leave the vehicles and the parts of the state exactly as they
\* were, in admin mode too, and what is stored stays the saved state.
C23_DeclinedDeleteChangesNothing ==
    (/\ last.op \in {"deleteVehicle", "deletePart"}
     /\ last.editor
     /\ ~last.confirmed) =>
        /\ state = prev
        /\ storage = saveStoredData(state)

\* a delete of a listed vehicle that has parts was declined in admin mode
C23_Witness ==
    /\ last.op = "deleteVehicle"
    /\ last.editor
    /\ ~last.confirmed
    /\ last.id \in IdsOf(state.vehicles)
    /\ \E i \in 1..Len(state.parts) : state.parts[i].vehicleId = last.id

\* C24: the recently-updated list of the dashboard has min(3, number of
\* vehicles) entries, which are vehicles at distinct positions of the list of
\* the state; it is ordered by updatedAt, latest first; no vehicle left out
\* has a later updatedAt than a listed one; and the list of the state is in
\* the same order after the computation as before.
C24_RecentVehicles ==
    last.op = "stats" =>
        LET vs == prev.vehicles
            rec == last.rec
        IN  /\ Len(rec) = IF Len(vs) < 3 THEN Len(vs) ELSE 3
            /\ \E f \in [1..Len(rec) -> 1..Len(vs)] :
                  /\ \A k, l \in 1..Len(rec) : f[k] = f[l] => k = l
                  /\ \A k \in 1..Len(rec) : rec[k] = vs[f[k]]
                  /\ \A j \in 1..Len(vs) :
                        (\A k \in 1..Len(rec) : f[k] # j) =>
                            \A k \in 1..Len(rec) :
                                vs[j].updatedAt <= rec[k].updatedAt
            /\ \A k, l \in 1..Len(rec) :
                  k < l => rec[k].updatedAt >= rec[l].updatedAt
            /\ state = prev

\* computed from four vehicles stored with a later one behind an earlier
\* one: a vehicle is left out and the list is not the head of the stored one
C24_Witness ==
    /\ last.op = "stats"
    /\ Len(prev.vehicles) = 4
    /\ \E i, j \in 1..4 :
          i < j /\ prev.vehicles[i].updatedAt < prev.vehicles[j].updatedAt
    /\ last.rec # SubSeq(prev.vehicles, 1, 3)
    /\ prev.vehicles[4].updatedAt > prev.vehicles[1].updatedAt
    /\ last.rec[1] = prev.vehicles[4]

=============================================================================
